---- MODULE Spec2Model ----
(***************************************************************************)
(* Model of the blog REST API: the router of controllers/blogs.js over a   *)
(* document store of posts and users, and the list helpers (totalLikes,    *)
(* favoriteBlog, mostBlogs).                                               *)
(*                                                                         *)
(* An optional JavaScript value is a sequence of length at most one:       *)
(* <<>> is undefined/null, <<v>> is the value v.                           *)
(***************************************************************************)
EXTENDS Integers, Sequences, FiniteSets, TLC

\* ---------------------------------------------------------------- bounds
\* Posts the store ever holds, and requests the clients ever send.
MaxPosts == 2
MaxRequests == 3
\* Length of the lists handed to the helpers, and the likes of their posts.
MaxLen == 3
MaxLikes == 1

\* The path identifier the tests use as one that is no ObjectId.
MalformedId == 11

\* ---------------------------------------------------------------- values
Users == {"u1", "u2"}
\* Path identifiers: the created posts', one that names no post, and one that
\* is no ObjectId.
PathIds == (1..(MaxPosts + 1)) \cup {MalformedId}

NoIdToken == "noid"
BadToken == "bad"
TokenOf(u) == <<"user", u>>
Tokens == {TokenOf(u) : u \in Users} \cup {<<NoIdToken, "">>, <<BadToken, "">>}

Titles == {<<>>, <<"">>, <<"T">>}
Urls == {<<>>, <<"">>, <<"U">>}
Authors == {<<"A">>}
LikesIn == {<<>>, <<0>>, <<1>>}

Bodies == [title : Titles, author : Authors, url : Urls, likes : LikesIn]

VARIABLES blogs, userBlogs, nextId, pending, createdBy, storeFailed, response,
          served, posts, result

vars == <<blogs, userBlogs, nextId, pending, createdBy, storeFailed, response,
          served, posts, result>>
routerVars == <<blogs, userBlogs, nextId, pending, createdBy, storeFailed, response, served>>
aggVars == <<posts, result>>

\* ---------------------------------------------------------------- helpers
\* JavaScript truthiness of an optional string: undefined and "" are falsy.
Truthy(s) == s # <<>> /\ s[1] # ""

\* Faulty variant: the supplied likes are dropped.
LikesAlwaysZero(l) == 0

\* body.likes || 0
LikesOrZero(l) == IF l = <<>> \/ l[1] = 0 THEN 0 ELSE l[1]

\* jwt.verify: throws on a token that does not verify.
VerifyThrows(tok) == tok[1] = BadToken
\* decodedToken.id
DecodedId(tok) == IF tok[1] = "user" THEN <<tok[2]>> ELSE <<>>

\* The cast of a path identifier to an ObjectId fails (CastError).
CastFails(pid) == pid = MalformedId

NoResponse == [op |-> "none", outcome |-> "none", status |-> 0, error |-> "", data |-> {}]
Sent(op, status, error, data) ==
    [op |-> op, outcome |-> "sent", status |-> status, error |-> error, data |-> data]
\* A rejection of the async handler that nothing catches: no response is sent.
Unhandled(op, error) ==
    [op |-> op, outcome |-> "unhandled", status |-> 0, error |-> error, data |-> {}]
\* next(error)
Forwarded(op, error) ==
    [op |-> op, outcome |-> "next", status |-> 0, error |-> error, data |-> {}]

\* What a list helper returned: a value, or the text it returns for the empty list.
NoResult == [fn |-> "none", empty |-> FALSE, value |-> <<>>]
EmptyListResult(fn) == [fn |-> fn, empty |-> TRUE, value |-> "the blog list is empty"]
Returned(fn, v) == [fn |-> fn, empty |-> FALSE, value |-> v]

\* populate('user', {username, name, id})
PublicUser(u) == [id |-> u, username |-> <<"user", u>>, name |-> <<"name", u>>]
Populate(b) == [b EXCEPT !.user = IF b.user = <<>> THEN <<>> ELSE <<PublicUser(b.user[1])>>]
StoredPosts == {blogs[i] : i \in DOMAIN blogs}

\* Blog.deleteMany({}): the store holds no post.
EmptyStore == <<>>

\* ---------------------------------------------------------------- router
Init ==
    /\ blogs = EmptyStore
    /\ userBlogs = [u \in Users |-> <<>>]
    /\ nextId = 1
    /\ pending = {}
    /\ createdBy = <<>>
    /\ storeFailed = FALSE
    /\ response = NoResponse
    /\ served = 0
    /\ posts = <<>>
    /\ result = NoResult

\* A request reaches the router: the client has no response outstanding.
Accept ==
    /\ response = NoResponse
    /\ served < MaxRequests
    /\ served' = served + 1

\* The client receives the response it awaits.
Deliver ==
    /\ response # NoResponse
    /\ response' = NoResponse
    /\ UNCHANGED <<blogs, userBlogs, nextId, pending, createdBy, storeFailed, served>>

\* GET /
GetBlogs ==
    /\ Accept
    /\ response' = Sent("list", 200, "", {Populate(b) : b \in StoredPosts})
    /\ UNCHANGED <<blogs, userBlogs, nextId, pending, createdBy, storeFailed>>

\* new Blog({...})
NewBlog(body, u, id) ==
    [id |-> id, title |-> body.title, author |-> body.author, url |-> body.url,
     likes |-> <<LikesOrZero(body.likes)>>, user |-> <<u>>]

\* Faulty variant: only the title is validated.
ValidBodyTitleOnly(body) == Truthy(body.title)

\* if (body.title && body.url)
ValidBody(body) == Truthy(body.title) /\ Truthy(body.url)

\* POST /, up to the response: verify the token, read the user, validate, save
\* the post, respond.  The write of the user's list is the later step UserSave.
CreatePost(tok, body) ==
    /\ Accept
    /\ UNCHANGED <<userBlogs, storeFailed>>
    /\ IF VerifyThrows(tok)
         THEN /\ response' = Unhandled("create", "JsonWebTokenError")
              /\ UNCHANGED <<blogs, nextId, pending, createdBy>>
       ELSE IF DecodedId(tok) = <<>>
         THEN /\ response' = Sent("create", 401, "token invalid", {})
              /\ UNCHANGED <<blogs, nextId, pending, createdBy>>
       ELSE IF ~ValidBody(body)
         THEN /\ response' = Sent("create", 400, "", {})
              /\ UNCHANGED <<blogs, nextId, pending, createdBy>>
       ELSE LET u == DecodedId(tok)[1]
                savedBlog == NewBlog(body, u, nextId)
            IN /\ nextId <= MaxPosts
               /\ blogs' = (nextId :> savedBlog) @@ blogs
               /\ nextId' = nextId + 1
               /\ createdBy' = (nextId :> u) @@ createdBy
               /\ pending' = pending \cup
                     {[caller |-> u, read |-> userBlogs[u], saved |-> nextId]}
               /\ response' = Sent("create", 201, "", {savedBlog})

\* user.blogs = user.blogs.concat(savedBlog.id)
ConcatOwned(read, id) == Append(read, id)

\* await user.save(): the list computed from this request's own read is
\* written.  When the record changed since the read, the store either takes
\* the write (no version check on the path) or rejects it (VersionError).
UserSave(r, rejectStale) ==
    /\ r \in pending
    /\ pending' = pending \ {r}
    /\ IF rejectStale
         THEN /\ userBlogs[r.caller] # r.read
              /\ storeFailed' = TRUE
              /\ UNCHANGED userBlogs
         ELSE /\ userBlogs' = [userBlogs EXCEPT ![r.caller] = ConcatOwned(r.read, r.saved)]
              /\ UNCHANGED storeFailed
    /\ UNCHANGED <<blogs, nextId, createdBy, response, served>>

\* The update document: {title, author, url, likes, id}.
UpdateDoc(body) ==
    [title |-> body.title, author |-> body.author, url |-> body.url,
     likes |-> body.likes, id |-> <<>>]

\* One path of Blog.findByIdAndUpdate(id, blog): a defined value is written as
\* it is (update validators are off); an undefined one is either dropped from
\* the update or written as null, as the build of the mapper has it.
SetField(old, new, dropUndefined) ==
    IF new # <<>> THEN new ELSE IF dropUndefined THEN old ELSE <<>>

ApplyUpdate(b, doc, dropUndefined) ==
    [b EXCEPT !.title = SetField(b.title, doc.title, dropUndefined),
              !.author = SetField(b.author, doc.author, dropUndefined),
              !.url = SetField(b.url, doc.url, dropUndefined),
              !.likes = SetField(b.likes, doc.likes, dropUndefined)]

\* PUT /:id
UpdateBlog(pid, body) ==
    /\ Accept
    /\ UNCHANGED <<userBlogs, nextId, pending, createdBy, storeFailed>>
    /\ IF CastFails(pid)
         THEN /\ response' = Forwarded("update", "CastError")
              /\ UNCHANGED blogs
       ELSE IF pid \notin DOMAIN blogs
         THEN /\ response' = Sent("update", 200, "", {UpdateDoc(body)})
              /\ UNCHANGED blogs
       ELSE /\ \E dropUndefined \in BOOLEAN :
                 blogs' = [blogs EXCEPT ![pid] = ApplyUpdate(@, UpdateDoc(body), dropUndefined)]
            /\ response' = Sent("update", 200, "", {UpdateDoc(body)})

\* Faulty variant: the ownership comparison is missing.
OwnedByAnyone(b, u) == TRUE

\* blog.user.toString() === user._id.toString()
OwnedBy(b, u) == b.user[1] = u

\* Faulty variant: the removal is not performed.
RemoveNothing(store, pid) == store

\* Blog.findByIdAndRemove(id)
RemoveBlog(store, pid) == [i \in DOMAIN store \ {pid} |-> store[i]]

\* DELETE /:id
DeleteBlog(tok, pid) ==
    /\ Accept
    /\ UNCHANGED <<userBlogs, nextId, pending, createdBy, storeFailed>>
    /\ IF VerifyThrows(tok)
         THEN /\ response' = Unhandled("delete", "JsonWebTokenError")
              /\ UNCHANGED blogs
       ELSE IF DecodedId(tok) = <<>>
         THEN /\ response' = Sent("delete", 401, "token invalid", {})
              /\ UNCHANGED blogs
       ELSE IF CastFails(pid)
         THEN /\ response' = Unhandled("delete", "CastError")
              /\ UNCHANGED blogs
       ELSE IF pid \notin DOMAIN blogs \/ blogs[pid].user = <<>>
         THEN /\ response' = Unhandled("delete", "TypeError")
              /\ UNCHANGED blogs
       ELSE IF OwnedBy(blogs[pid], DecodedId(tok)[1])
         THEN /\ blogs' = RemoveBlog(blogs, pid)
              /\ response' = Sent("delete", 204, "", {})
       ELSE /\ response' = Sent("delete", 401, "user not authorized", {})
            /\ UNCHANGED blogs

Next ==
    \/ GetBlogs /\ UNCHANGED aggVars
    \/ Deliver /\ UNCHANGED aggVars
    \/ \E tok \in Tokens, body \in Bodies : CreatePost(tok, body) /\ UNCHANGED aggVars
    \/ \E r \in pending, rej \in BOOLEAN : UserSave(r, rej) /\ UNCHANGED aggVars
    \/ \E pid \in PathIds, body \in Bodies : UpdateBlog(pid, body) /\ UNCHANGED aggVars
    \/ \E tok \in Tokens, pid \in PathIds : DeleteBlog(tok, pid) /\ UNCHANGED aggVars

Spec == Init /\ [][Next]_vars
\* ---------------------------------------------------------------- claims
\* The token resolves to a caller identity.
Resolved(tok) == ~VerifyThrows(tok) /\ DecodedId(tok) # <<>>
Caller(tok) == DecodedId(tok)[1]
\* A field of the body that is missing or empty.
Lacks(s) == s = <<>> \/ s = <<"">>
Count(store) == Cardinality(DOMAIN store)
ListedIds == {b.id : b \in response.data}
\* The step is the router handling a request of this kind.
Handled(op) == response = NoResponse /\ response'.op = op

\* C1: a create request by a resolved caller whose body lacks a non-empty
\* title or a non-empty url is answered 400 and leaves the stored posts (and
\* their count) as they were.
C1_InvalidCreateRejected ==
    [][Handled("create") =>
         \A tok \in Tokens, body \in Bodies :
           (Resolved(tok) /\ (Lacks(body.title) \/ Lacks(body.url)) /\ CreatePost(tok, body))
             => /\ response' = Sent("create", 400, "", {})
                /\ blogs' = blogs
                /\ Count(blogs') = Count(blogs)]_vars

C1_Witness == response = Sent("create", 400, "", {})

\* C2: a delete by a resolved caller of a stored post that caller owns is
\* answered 204, removes exactly that post (count minus one, every other post
\* unchanged), and the post is in no later list: a removed identifier never
\* comes back and a list shows exactly the stored identifiers.
C2_OwnerDeleteRemoves ==
    [][/\ Handled("delete") => \A tok \in Tokens, pid \in PathIds :
            (/\ Resolved(tok)
             /\ pid \in DOMAIN blogs
             /\ blogs[pid].user = <<Caller(tok)>>
             /\ DeleteBlog(tok, pid))
              => /\ response' = Sent("delete", 204, "", {})
                 /\ pid \notin DOMAIN blogs'
                 /\ Count(blogs') = Count(blogs) - 1
                 /\ \A o \in DOMAIN blogs \ {pid} : o \in DOMAIN blogs' /\ blogs'[o] = blogs[o]
       /\ \A id \in 1..(nextId - 1) : id \notin DOMAIN blogs => id \notin DOMAIN blogs'
       /\ response'.op = "list" => ListedIds' = DOMAIN blogs']_vars

C2_Witness == response = Sent("delete", 204, "", {}) /\ nextId > 1 /\ (nextId - 1) \notin DOMAIN blogs

C4_BadIdAnswered400 ==
    [][Handled("delete") => \A tok \in Tokens, pid \in PathIds :
         (Resolved(tok) /\ (pid = MalformedId \/ pid \notin DOMAIN blogs) /\ DeleteBlog(tok, pid))
           => /\ response'.outcome = "sent"
              /\ response'.status = 400
              /\ blogs' = blogs]_vars

\* C5 (as claimed): no stored post has a missing or empty title or url.
C5_TitleAndUrlAlwaysStored ==
    \A id \in DOMAIN blogs : ~Lacks(blogs[id].title) /\ ~Lacks(blogs[id].url)

\* C6 (as claimed): an update whose path identifier matches no stored post
\* is forwarded to the error handler, sends no 200 response, and leaves the
\* stored posts as they were.
C6_UpdateUnknownFails ==
    [][Handled("update") => \A pid \in PathIds, body \in Bodies :
         (pid \notin DOMAIN blogs /\ UpdateBlog(pid, body))
           => /\ response'.outcome = "next"
              /\ ~(response'.outcome = "sent" /\ response'.status = 200)
              /\ blogs' = blogs]_vars

\* C7: a create by a resolved caller with non-empty title and url is answered
\* 201 with the new post, whose likes is the supplied value, or 0 when likes is
\* omitted; exactly that post is added to the store, owned by the caller; a
\* stored post stays stored until a delete removes it, and every list contains
\* every stored post.
C7_CreateStoresPost ==
    [][/\ Handled("create") => \A tok \in Tokens, body \in Bodies :
            (Resolved(tok) /\ ~Lacks(body.title) /\ ~Lacks(body.url) /\ CreatePost(tok, body))
              => /\ response'.outcome = "sent" /\ response'.status = 201
                 /\ \E b \in response'.data :
                      /\ response'.data = {b}
                      /\ b.likes = (IF body.likes = <<>> THEN <<0>> ELSE body.likes)
                      /\ b.title = body.title /\ b.url = body.url
                      /\ b.user = <<Caller(tok)>>
                      /\ b.id \notin DOMAIN blogs
                      /\ DOMAIN blogs' = DOMAIN blogs \cup {b.id}
                      /\ blogs'[b.id] = b
                 /\ Count(blogs') = Count(blogs) + 1
                 /\ \A o \in DOMAIN blogs : blogs'[o] = blogs[o]
       /\ \A id \in DOMAIN blogs :
            id \notin DOMAIN blogs' => \E tok \in Tokens : DeleteBlog(tok, id)
       /\ response'.op = "list" => \A id \in DOMAIN blogs' : id \in ListedIds']_vars

C7_Witness ==
    /\ response.op = "create" /\ response.status = 201
    /\ \E b \in response.data : b.likes = <<0>> /\ b.id \in DOMAIN blogs /\ blogs[b.id] = b

Owned(u) == {userBlogs[u][i] : i \in 1..Len(userBlogs[u])}

\* C10 (as claimed): once every create request has completed without a store
\* failure, every post a caller created is referenced in that caller's
\* owned-list.
C10_EveryCreatedPostOwned ==
    (pending = {} /\ ~storeFailed)
      => \A id \in DOMAIN createdBy : id \in Owned(createdBy[id])
\* ---------------------------------------------------------------- list helpers
\* A string of the helpers' input is the sequence of its UTF-16 code units.
AuthorNames == {<<65>>, <<65, 66>>, <<66>>}
HelperPosts == [title : {"T1", "T2"}, author : AuthorNames, likes : 0..MaxLikes]
RECURSIVE ListsUpTo(_)
ListsUpTo(n) ==
    IF n = 0 THEN {<<>>}
    ELSE LET shorter == ListsUpTo(n - 1)
         IN shorter \cup {Append(l, p) : l \in {x \in shorter : Len(x) = n - 1}, p \in HelperPosts}
HelperInputs == ListsUpTo(MaxLen)

dummy(list) == 1

RECURSIVE totalLikes(_)
totalLikes(list) == IF list = <<>> THEN 0 ELSE Head(list).likes + totalLikes(Tail(list))

\* Faulty variant: >= in place of >, which keeps the earlier of two equal posts.
FavoriteReducerGe(acc, curr) == IF acc.likes >= curr.likes THEN acc ELSE curr

\* (acc, curr) => acc.likes > curr.likes ? acc : curr
FavoriteReducer(acc, curr) == IF acc.likes > curr.likes THEN acc ELSE curr

\* blogs.reduce(reducer): the first element is the initial accumulator.
RECURSIVE ReduceFavorite(_, _, _)
ReduceFavorite(list, i, acc) ==
    IF i > Len(list) THEN acc
    ELSE ReduceFavorite(list, i + 1, FavoriteReducer(acc, list[i]))

favoriteBlog(list) ==
    IF Len(list) # 0
      THEN LET blog == ReduceFavorite(list, 2, list[1])
           IN Returned("favoriteBlog",
                       [title |-> blog.title, author |-> blog.author, likes |-> blog.likes])
      ELSE EmptyListResult("favoriteBlog")

\* _.entries(_.countBy(blogs, 'author')): one <<author, count>> per author, in
\* the order the authors first occur.
RECURSIVE CountByAuthor(_, _, _)
CountByAuthor(list, i, entries) ==
    IF i > Len(list) THEN entries
    ELSE LET a == list[i].author
             at == {k \in 1..Len(entries) : entries[k][1] = a}
         IN IF at = {}
              THEN CountByAuthor(list, i + 1, Append(entries, <<a, 1>>))
              ELSE LET k == CHOOSE k \in at : TRUE
                   IN CountByAuthor(list, i + 1, [entries EXCEPT ![k] = <<a, @[2] + 1>>])

\* Number.prototype.toString, base 10.
RECURSIVE NumberToString(_)
NumberToString(n) ==
    IF n < 10 THEN <<48 + n>> ELSE NumberToString(n \div 10) \o <<48 + (n % 10)>>

\* Array.prototype.toString of an entry: its elements joined by ",".
EntryToString(e) == e[1] \o <<44>> \o NumberToString(e[2])

\* a > b on strings: by code units, a proper prefix being the smaller.
RECURSIVE StringGt(_, _)
StringGt(a, b) ==
    IF a = <<>> THEN FALSE
    ELSE IF b = <<>> THEN TRUE
    ELSE IF Head(a) # Head(b) THEN Head(a) > Head(b)
    ELSE StringGt(Tail(a), Tail(b))

\* baseGt(value, other) on two arrays: both are converted to strings.
BaseGt(value, other) == StringGt(EntryToString(value), EntryToString(other))

\* _.maxBy(array) with no iteratee: baseExtremum(array, identity, baseGt).
RECURSIVE BaseExtremum(_, _, _)
BaseExtremum(array, i, computed) ==
    IF i > Len(array) THEN computed
    ELSE IF computed = <<>> \/ BaseGt(array[i], computed[1])
      THEN BaseExtremum(array, i + 1, <<array[i]>>)
    ELSE BaseExtremum(array, i + 1, computed)

MaxBy(array) == IF Len(array) # 0 THEN BaseExtremum(array, 1, <<>>) ELSE <<>>

mostBlogs(list) ==
    LET authorData == MaxBy(CountByAuthor(list, 1, <<>>))
    IN IF Len(list) = 0 THEN EmptyListResult("mostBlogs")
       ELSE Returned("mostBlogs", [author |-> authorData[1][1], blogs |-> authorData[1][2]])

InitHelpers ==
    /\ blogs = EmptyStore
    /\ userBlogs = [u \in Users |-> <<>>]
    /\ nextId = 1
    /\ pending = {}
    /\ createdBy = <<>>
    /\ storeFailed = FALSE
    /\ response = NoResponse
    /\ served = 0
    /\ posts \in HelperInputs
    /\ result = NoResult

CallDummy == result' = Returned("dummy", dummy(posts)) /\ UNCHANGED posts
CallTotalLikes == result' = Returned("totalLikes", totalLikes(posts)) /\ UNCHANGED posts
CallFavoriteBlog == result' = favoriteBlog(posts) /\ UNCHANGED posts
CallMostBlogs == result' = mostBlogs(posts) /\ UNCHANGED posts

NextHelpers ==
    \/ CallDummy /\ UNCHANGED routerVars
    \/ CallTotalLikes /\ UNCHANGED routerVars
    \/ CallFavoriteBlog /\ UNCHANGED routerVars
    \/ CallMostBlogs /\ UNCHANGED routerVars

SpecHelpers == InitHelpers /\ [][NextHelpers]_vars

MaxLikesOf(list) == CHOOSE m \in {list[i].likes : i \in 1..Len(list)} :
                      \A i \in 1..Len(list) : list[i].likes <= m
IsFavorite(list, i) == list[i].likes = MaxLikesOf(list)
Fields(p) == [title |-> p.title, author |-> p.author, likes |-> p.likes]

\* C8 (as claimed): favoriteBlog returns the fields of the FIRST post whose
\* likes is the maximum, and the empty-list sentinel for the empty list.
C8_FavoriteIsFirstMaximum ==
    result.fn = "favoriteBlog"
      => IF posts = <<>> THEN result = EmptyListResult("favoriteBlog")
         ELSE LET first == CHOOSE i \in 1..Len(posts) :
                             IsFavorite(posts, i) /\ \A j \in 1..(i - 1) : ~IsFavorite(posts, j)
              IN ~result.empty /\ result.value = Fields(posts[first])

\* C8 (amended): favoriteBlog returns the fields of the LAST post whose likes
\* is the maximum, and the empty-list sentinel for the empty list.
C8_FavoriteIsLastMaximum ==
    result.fn = "favoriteBlog"
      => IF posts = <<>> THEN result = EmptyListResult("favoriteBlog")
         ELSE LET last == CHOOSE i \in 1..Len(posts) :
                            IsFavorite(posts, i)
                              /\ \A j \in (i + 1)..Len(posts) : ~IsFavorite(posts, j)
              IN ~result.empty /\ result.value = Fields(posts[last])

\* Two different posts share the maximum, and favoriteBlog has returned.
C8_Witness ==
    /\ result.fn = "favoriteBlog"
    /\ \E i, j \in 1..Len(posts) :
         i < j /\ IsFavorite(posts, i) /\ IsFavorite(posts, j) /\ posts[i] # posts[j]

PostsBy(list, a) == Cardinality({i \in 1..Len(list) : list[i].author = a})

\* C9 (as claimed): when one author has strictly more posts than every other,
\* mostBlogs returns that author with that count; for the empty list it
\* returns the empty-list sentinel.
C9_MostBlogsIsMajorityAuthor ==
    result.fn = "mostBlogs"
      => IF posts = <<>> THEN result = EmptyListResult("mostBlogs")
         ELSE \A a \in AuthorNames :
                (\A o \in AuthorNames \ {a} : PostsBy(posts, a) > PostsBy(posts, o))
                  => ~result.empty
                     /\ result.value = [author |-> a, blogs |-> PostsBy(posts, a)]
====
